---- MODULE Spec2Model ----
(***************************************************************************)
(* Model of shesha/util/z_aberration.py: the Zernike aberration utility    *)
(* (calc_zcube, load_variable, calc_step, calc_phase_screen, calc_trunc)   *)
(* and its orchestrator init_z_aber(sim).                                  *)
(*                                                                         *)
(* Numbers.  Diameters are whole metres; coefficients and free-standing    *)
(* cube pixels are integers.  Time stamps, the iteration time, the         *)
(* tolerances and the grid coordinates are IEEE-754 binary64 values        *)
(* [sg, hi, lo, ex] (sign, two 27-bit limbs of the 53-bit significand,     *)
(* exponent of its last bit), and +, -, / and round on them are computed   *)
(* bit for bit (round to nearest, ties to even), as are the two divisions  *)
(* of calc_trunc.  The float32 cast of calc_phase_screen rounds to a       *)
(* 24-bit significand.  The piston mode of a generated cube is the exact   *)
(* 1; a pixel of a higher mode is the term [zpol, x, y]: the float64 the   *)
(* polynomial takes at the grid point (x, y), whose digits depend on the   *)
(* platform's arctan2, cos and sin.                                        *)
(***************************************************************************)
EXTENDS Integers, Sequences, FiniteSets, TLC

\* ------------------------------------------------------------------------
\* Bounds of the model
\* ------------------------------------------------------------------------
\* largest small-pupil pixel diameter (p_geom.pupdiam)
MaxPupdiam == 3
\* largest margin p_geom._n - p_geom.pupdiam
MaxMargin == 3
\* largest telescope diameter in metres (p_tel.diam, explicit pup_diam);
\* diam_data ranges one metre further
MaxDiam == 2
\* most time stamps in the mat-file, and largest numerator of the gap
\* between two of them
MaxSamples == 3
MaxStep == 3
\* largest numerator of the iteration time (p_loop.ittime)
MaxIttime == 2
\* most calls of init_z_aber on one simulator
MaxCalls == 2
\* direct calls of calc_trunc: largest pixel diameter and diameter in metres
MaxRefPix == 7
MaxRefDiam == 9
\* direct calls of calc_phase_screen: most modes and largest side of a cube
MaxModes == 2
MaxSide == 2

\* ------------------------------------------------------------------------
\* Python values
\* ------------------------------------------------------------------------
\* an attribute that may be None holds <<>> (None) or <<v>> (the value v)
None == <<>>

Some(v) == <<v>>

Get(o) == o[1]

Abs(x) == IF x < 0 THEN -x ELSE x

Min(a, b) == IF a < b THEN a ELSE b

Max(a, b) == IF a > b THEN a ELSE b

RECURSIVE GCD(_, _)
GCD(a, b) == IF b = 0 THEN a ELSE GCD(b, a % b)

\* ------------------------------------------------------------------------
\* Pixel values that are numbers: exact rationals [num, den], den > 0,
\* lowest terms
\* ------------------------------------------------------------------------
Rat(p, q) ==
    LET s == IF q < 0 THEN -1 ELSE 1
        g == GCD(Abs(p), Abs(q))
    IN  [num |-> (s * p) \div g, den |-> (s * q) \div g]

RatInt(n) == [num |-> n, den |-> 1]

RatAdd(x, y) == Rat(x.num * y.den + y.num * x.den, x.den * y.den)

RatScale(c, x) == Rat(c * x.num, x.den)

\* ------------------------------------------------------------------------
\* IEEE-754 binary64, positive finite values: significand hi * 2^27 + lo
\* with 2^52 <= significand < 2^53, value = significand * 2^ex.
\* ------------------------------------------------------------------------
Limb == 2 ^ 27

BigGE(x, y) == x.hi > y.hi \/ (x.hi = y.hi /\ x.lo >= y.lo)

BigSub(x, y) ==
    IF x.lo >= y.lo THEN [hi |-> x.hi - y.hi, lo |-> x.lo - y.lo]
    ELSE [hi |-> x.hi - y.hi - 1, lo |-> x.lo + Limb - y.lo]

BigDbl(x) == [hi |-> 2 * x.hi + ((2 * x.lo) \div Limb), lo |-> (2 * x.lo) % Limb]

BigInc(x) ==
    IF x.lo + 1 = Limb THEN [hi |-> x.hi + 1, lo |-> 0]
    ELSE [hi |-> x.hi, lo |-> x.lo + 1]

BigZero == [hi |-> 0, lo |-> 0]

RECURSIVE NormShift(_, _)
\* the j >= 0 with 2^25 <= n * 2^j < 2^26, for 0 < n < 2^26
NormShift(n, j) == IF n * (2 ^ j) >= 33554432 THEN j ELSE NormShift(n, j + 1)

\* float(n) for an integer 0 < n < 2^26 (exact)
F64FromInt(n) ==
    LET j == NormShift(n, 0)
    IN  [hi |-> n * (2 ^ j), lo |-> 0, ex |-> (0 - 27) - j]

RECURSIVE DivBits(_, _, _)
\* restoring long division of r by m (m <= r < 2m at the start): quotient
\* bits are shifted into q until it has 53 of them
DivBits(r, m, q) ==
    IF q.hi >= 33554432 THEN [q |-> q, r |-> r]
    ELSE LET bit == BigGE(r, m)
             r1 == IF bit THEN BigSub(r, m) ELSE r
             q2 == BigDbl(q)
             q1 == IF bit THEN [hi |-> q2.hi, lo |-> q2.lo + 1] ELSE q2
         IN  DivBits(BigDbl(r1), m, q1)

\* the 53-bit quotient d.q with remainder d.r of a division by mb, rounded
\* to nearest, ties to even, with exponent e
F64Round(d, mb, e) ==
    LET rnd == BigGE(d.r, mb)
        sticky == (IF rnd THEN BigSub(d.r, mb) ELSE d.r) # BigZero
        q == IF rnd /\ (sticky \/ d.q.lo % 2 = 1) THEN BigInc(d.q) ELSE d.q
    IN  IF q.hi = 67108864
        THEN [hi |-> 33554432, lo |-> 0, ex |-> e + 1]
        ELSE [hi |-> q.hi, lo |-> q.lo, ex |-> e]

\* a / b in float64, correctly rounded (round to nearest, ties to even)
F64Div(a, b) ==
    LET ma == [hi |-> a.hi, lo |-> a.lo]
        mb == [hi |-> b.hi, lo |-> b.lo]
    IN  IF BigGE(ma, mb)
        THEN F64Round(DivBits(ma, mb, BigZero), mb, (a.ex - b.ex) - 52)
        ELSE F64Round(DivBits(BigDbl(ma), mb, BigZero), mb, (a.ex - b.ex) - 53)

\* numpy.floor of a positive float64 below 2^26, as an integer
F64Floor(x) ==
    LET sh == 0 - x.ex
    IN  IF sh >= 53 THEN 0
        ELSE IF sh >= 27 THEN x.hi \div (2 ^ (sh - 27))
        ELSE x.hi * (2 ^ (27 - sh)) + (x.lo \div (2 ^ sh))

\* ------------------------------------------------------------------------
\* IEEE-754 binary64 with a sign: [sg, hi, lo, ex], sg in {-1, 0, 1}; zero
\* is sg = 0.  Normal finite values only (no infinity, NaN, subnormal or
\* negative zero: none arises from the values the model draws).  A wide
\* magnitude is [hi, lo] = hi * 2^27 + lo with lo < 2^27 and hi < 2^31.
\* ------------------------------------------------------------------------
FlZero == [sg |-> 0, hi |-> 0, lo |-> 0, ex |-> 0]

FlSigned(s, m) == [sg |-> s, hi |-> m.hi, lo |-> m.lo, ex |-> m.ex]

\* float(n) for an integer |n| < 2^26
FlInt(n) ==
    IF n = 0 THEN FlZero
    ELSE FlSigned(IF n < 0 THEN -1 ELSE 1, F64FromInt(Abs(n)))

FlNeg(a) == [a EXCEPT !.sg = 0 - a.sg]

FlAbs(a) == [a EXCEPT !.sg = Abs(a.sg)]

\* |a| < |b| for non-zero a, b
FlMagLT(a, b) ==
    \/ a.ex < b.ex
    \/ a.ex = b.ex /\ (a.hi < b.hi \/ (a.hi = b.hi /\ a.lo < b.lo))

\* a < b
FlLT(a, b) ==
    IF a.sg # b.sg THEN a.sg < b.sg
    ELSE IF a.sg = 0 THEN FALSE
    ELSE IF a.sg = 1 THEN FlMagLT(a, b)
    ELSE FlMagLT(b, a)

FlGT(a, b) == FlLT(b, a)

RECURSIVE BitLen(_)
\* number of bits of an integer n >= 0
BitLen(n) == IF n = 0 THEN 0 ELSE 1 + BitLen(n \div 2)

WideLen(x) == IF x.hi > 0 THEN 27 + BitLen(x.hi) ELSE BitLen(x.lo)

\* x * 8
WideMul8(x) == [hi |-> 8 * x.hi + ((8 * x.lo) \div Limb), lo |-> (8 * x.lo) % Limb]

\* x * i for an integer 0 <= i < 16
WideMulInt(x, i) == [hi |-> i * x.hi + ((i * x.lo) \div Limb), lo |-> (i * x.lo) % Limb]

WideAdd(x, y) ==
    [hi |-> x.hi + y.hi + ((x.lo + y.lo) \div Limb), lo |-> (x.lo + y.lo) % Limb]

\* floor(x / 2^d), 0 <= d <= 55
WideShr(x, d) ==
    IF d < 27
    THEN [hi |-> x.hi \div (2 ^ d),
          lo |-> (x.hi % (2 ^ d)) * (2 ^ (27 - d)) + (x.lo \div (2 ^ d))]
    ELSE [hi |-> (x.hi \div (2 ^ (d - 27))) \div Limb,
          lo |-> (x.hi \div (2 ^ (d - 27))) % Limb]

\* x mod 2^d # 0, 0 <= d <= 55
WideLost(x, d) ==
    IF d < 27 THEN x.lo % (2 ^ d) # 0
    ELSE x.lo # 0 \/ x.hi % (2 ^ (d - 27)) # 0

\* x * 2^s for a result below 2^53
WideShl(x, s) ==
    IF s >= 27 THEN [hi |-> x.lo * (2 ^ (s - 27)), lo |-> 0]
    ELSE [hi |-> x.hi * (2 ^ s) + (x.lo \div (2 ^ (27 - s))),
          lo |-> (x.lo % (2 ^ (27 - s))) * (2 ^ s)]

\* x with its lowest bit set (the sticky bit of a right shift)
WideJam(x, lost) == IF lost /\ x.lo % 2 = 0 THEN [hi |-> x.hi, lo |-> x.lo + 1] ELSE x

\* q = 2 * m + guard with the bits below it summarised in lost: m rounded
\* to nearest, ties to even
WideRoundHalf(q, lost) ==
    IF q.lo % 2 = 1 /\ (lost \/ (q.lo \div 2) % 2 = 1)
    THEN BigInc(WideShr(q, 1))
    ELSE WideShr(q, 1)

\* the float of sign s and significand m (m <= 2^53), exponent e
FlPack(s, m, e) ==
    IF m.hi = 67108864 THEN [sg |-> s, hi |-> 33554432, lo |-> 0, ex |-> e + 1]
    ELSE [sg |-> s, hi |-> m.hi, lo |-> m.lo, ex |-> e]

\* the float nearest to s * n * 2^e for a wide n of len bits (ties to even)
FlRoundLen(s, n, e, len) ==
    IF len = 0 THEN FlZero
    ELSE IF len <= 53 THEN FlPack(s, WideShl(n, 53 - len), e - (53 - len))
    ELSE FlPack(s, WideRoundHalf(WideShr(n, len - 54), WideLost(n, len - 54)),
                e + (len - 53))

FlRound(s, n, e) == FlRoundLen(s, n, e, WideLen(n))

\* big + small or big - small for |big| >= |small| > 0, with guard, round
\* and sticky bits below the significand of big
FlAddOrdered(big, small) ==
    IF big.ex - small.ex >= 56 THEN big
    ELSE IF big.sg = small.sg
    THEN FlRound(big.sg,
                 WideAdd(WideMul8(big),
                         WideJam(WideShr(WideMul8(small), big.ex - small.ex),
                                 WideLost(WideMul8(small), big.ex - small.ex))),
                 big.ex - 3)
    ELSE FlRound(big.sg,
                 BigSub(WideMul8(big),
                        WideJam(WideShr(WideMul8(small), big.ex - small.ex),
                                WideLost(WideMul8(small), big.ex - small.ex))),
                 big.ex - 3)

\* a + b
FlAdd(a, b) ==
    IF a.sg = 0 THEN b
    ELSE IF b.sg = 0 THEN a
    ELSE IF FlMagLT(a, b) THEN FlAddOrdered(b, a)
    ELSE FlAddOrdered(a, b)

\* a - b
FlSub(a, b) == FlAdd(a, FlNeg(b))

\* a / b for b # 0
FlDiv(a, b) == IF a.sg = 0 THEN FlZero ELSE FlSigned(a.sg * b.sg, F64Div(a, b))

\* i * a for an integer 0 <= i < 16
FlMulInt(i, a) ==
    IF i = 0 \/ a.sg = 0 THEN FlZero ELSE FlRound(a.sg, WideMulInt(a, i), a.ex)

\* the decimal literal p/q, p and q integers, |p| < 2^26, 0 < q < 2^26
FlDec(p, q) == FlDiv(FlInt(p), FlInt(q))

\* numpy.round(a) as an integer (round half to even), |a| < 2^27
FlRintInt(a) ==
    IF a.sg = 0 \/ a.ex < -54 THEN 0
    ELSE a.sg * WideRoundHalf(WideShr(a, (0 - a.ex) - 1),
                              WideLost(a, (0 - a.ex) - 1)).lo

\* numpy.float32(x) of a real x: nearest value with a 24-bit significand,
\* ties to even
RECURSIVE F32Up(_, _, _)
F32Up(a, d, e) == IF a \div (d * (2 ^ e)) < 16777216 THEN e ELSE F32Up(a, d, e + 1)

RECURSIVE F32Down(_, _, _)
F32Down(a, d, s) == IF a * (2 ^ s) >= 8388608 * d THEN s ELSE F32Down(a, d, s + 1)

Float32(x) ==
    IF x.num = 0 THEN x
    ELSE LET sg == IF x.num < 0 THEN -1 ELSE 1
             a == Abs(x.num)
             d == x.den
         IN  IF a \div d >= 16777216
             THEN LET e == F32Up(a, d, 1)
                      w == d * (2 ^ e)
                      m0 == a \div w
                      rem == a - m0 * w
                      m == IF 2 * rem > w \/ (2 * rem = w /\ m0 % 2 = 1)
                           THEN m0 + 1 ELSE m0
                  IN  RatInt(sg * m * (2 ^ e))
             ELSE LET s == F32Down(a, d, 0)
                      t == a * (2 ^ s)
                      m0 == t \div d
                      rem == t - m0 * d
                      m == IF 2 * rem > d \/ (2 * rem = d /\ m0 % 2 = 1)
                           THEN m0 + 1 ELSE m0
                  IN  Rat(sg * m, 2 ^ s)

\* ------------------------------------------------------------------------
\* Python control flow and indexing
\* ------------------------------------------------------------------------
\* the outcome of a call: a returned value or a raised exception
Return(v) == [ok |-> TRUE, val |-> v, exc |-> "", msg |-> ""]

Raise(exc, msg) == [ok |-> FALSE, val |-> None, exc |-> exc, msg |-> msg]

\* a printed line: its text and the number formatted into it (0 if none)
Line(text, arg) == [text |-> text, arg |-> arg]

\* a[start:stop] on an axis of length len: the first index kept and the
\* number of indices kept (negative bounds count from the end, -0 is 0)
SliceNorm(i, len) == IF i < 0 THEN Max(i + len, 0) ELSE Min(i, len)

PySlice(len, start, stop) ==
    LET lo == SliceNorm(start, len)
        hi == SliceNorm(stop, len)
    IN  [lo |-> lo, n |-> Max(hi - lo, 0)]

\* ------------------------------------------------------------------------
\* Arrays.  A cube is [nz, side, pix] with pix[<<k, r, c>>] for
\* k \in 0..nz-1 and r, c \in 0..side-1; a screen is [side, pix] with
\* pix[<<r, c>>].
\* ------------------------------------------------------------------------
PyInt(n) == [type |-> "int", val |-> n]

PyFloat(n) == [type |-> "float", val |-> n]

\* cube[:, p:q, p:q]
CubeSlice(cube, start, stop) ==
    LET sl == PySlice(cube.side, start, stop)
    IN  [nz |-> cube.nz, side |-> sl.n,
         pix |-> [t \in (0 .. cube.nz - 1) \X (0 .. sl.n - 1) \X (0 .. sl.n - 1) |->
                    cube.pix[<<t[1], t[2] + sl.lo, t[3] + sl.lo>>]]]

\* numpy.linspace(-1, 1, g)[i]: arange(g) * step + start with
\* step = (1 - (-1)) / (g - 1) in float64, and the last element set to 1.0
Linspace(g, i) ==
    IF g = 1 THEN FlInt(-1)
    ELSE IF i = g - 1 THEN FlInt(1)
    ELSE FlAdd(FlMulInt(i, FlDiv(FlInt(2), FlInt(g - 1))), FlInt(-1))

RECURSIVE LinspaceFirst(_, _)
\* numpy.linspace(-1, 1, g)[:k] as a tuple
LinspaceFirst(g, k) ==
    IF k = 0 THEN <<>> ELSE Append(LinspaceFirst(g, k - 1), Linspace(g, k - 1))

\* Z[k] at the grid point (x, y): Z[0] is numpy.ones; mat_cmds[k] for k >= 1
\* is a float64 expression in r = sqrt(x**2 + y**2) and phi = arctan2(y, x),
\* kept as the term that names the polynomial and the point
Zernike(k, x, y) ==
    IF k = 0 THEN RatInt(1) ELSE [zpol |-> k, x |-> x, y |-> y]

NZpolImplemented == 22

\* lines 48-84: the cube on the grid lin x lin
zcube_on_grid(n_zpol, g, lin) ==
    [nz |-> n_zpol, side |-> g,
     pix |-> [t \in (0 .. n_zpol - 1) \X (0 .. g - 1) \X (0 .. g - 1) |->
                Zernike(t[1], lin[t[3] + 1], lin[t[2] + 1])]]

\* calc_zcube with the order check ahead of the grid check
calc_zcube_order_first(n_zpol, grid_p) ==
    IF n_zpol > NZpolImplemented
    THEN Raise("NotImplementedError", "There are only 22 Zernike polynomials implemented. Go to $SHESHA_ROOT/shesha/util/z_aberration.py and implement more polynomials in the function calc_zcube.")
    ELSE IF grid_p.type # "int" \/ grid_p.val <= 0
    THEN Raise("TypeError", "grid_p must be a POSITIVE integer.")
    ELSE Return(zcube_on_grid(n_zpol, grid_p.val,
                              LinspaceFirst(grid_p.val, grid_p.val)))

calc_zcube(n_zpol, grid_p) ==
    IF grid_p.type # "int"
    THEN Raise("TypeError", "grid_p must be a POSITIVE integer.")
    ELSE IF grid_p.val <= 0
    THEN Raise("TypeError", "grid_p must be a POSITIVE integer.")
    ELSE IF n_zpol > NZpolImplemented
    THEN Raise("NotImplementedError", "There are only 22 Zernike polynomials implemented. Go to $SHESHA_ROOT/shesha/util/z_aberration.py and implement more polynomials in the function calc_zcube.")
    ELSE Return(zcube_on_grid(n_zpol, grid_p.val,
                              LinspaceFirst(grid_p.val, grid_p.val)))

\* the mat-file is a store of named arrays
load_variable(store, mat_ver, var_name) ==
    IF mat_ver \in {"v4", "v6", "v7", "v7.3"}
    THEN IF var_name \in DOMAIN store
         THEN Return(store[var_name])
         ELSE Raise("KeyError", var_name)
    ELSE Raise("TypeError", "Unexpected Error: mat_vers must be v4 or v6 or v7 or v7.3")

RECURSIVE SeqMax(_)
\* ndarray.max() of a non-empty array of floats
SeqMax(s) ==
    IF Len(s) = 1 THEN s[1]
    ELSE IF FlLT(SeqMax(Tail(s)), s[1]) THEN s[1] ELSE SeqMax(Tail(s))

RECURSIVE SeqMin(_)
\* ndarray.min() of a non-empty array of floats
SeqMin(s) ==
    IF Len(s) = 1 THEN s[1]
    ELSE IF FlLT(s[1], SeqMin(Tail(s))) THEN s[1] ELSE SeqMin(Tail(s))

RECURSIVE SeqSum(_, _)
\* numpy.add.reduce of the first k elements: 0 + s[1] + ... + s[k], added
\* from the left (numpy sums arrays of fewer than 8 elements in order)
SeqSum(s, k) == IF k = 0 THEN FlZero ELSE FlAdd(SeqSum(s, k - 1), s[k])

\* numpy.mean of a non-empty array of floats
Mean(s) == FlDiv(SeqSum(s, Len(s)), FlInt(Len(s)))

\* numpy.diff
Diff(time) == [i \in 1 .. Len(time) - 1 |-> FlSub(time[i + 1], time[i])]

\* calc_step_ratio rejecting a step equal to the iteration time
calc_step_ratio_strict(step, dec, tol) ==
    IF ~FlGT(dec, FlInt(1))
    THEN Raise("ArithmeticError", "steps of time_series are smaller than the iteration time")
    ELSE IF FlGT(FlAbs(FlSub(dec, FlInt(FlRintInt(dec)))), tol)
    THEN Raise("ArithmeticError", "steps of time_series are not a multiple of the iteration time")
    ELSE Return(step)

\* lines 156-166: the two checks of dec = step / it_time
calc_step_ratio(step, dec, tol) ==
    IF FlLT(dec, FlInt(1))
    THEN Raise("ArithmeticError", "steps of time_series are smaller than the iteration time")
    ELSE IF FlGT(FlAbs(FlSub(dec, FlInt(FlRintInt(dec)))), tol)
    THEN Raise("ArithmeticError", "steps of time_series are not a multiple of the iteration time")
    ELSE Return(step)

\* lines 153-166
calc_step_mean(step, it_time, tol) == calc_step_ratio(step, FlDiv(step, it_time), tol)

\* lines 147-166
calc_step_diff(time_diff, it_time, tol) ==
    IF Len(time_diff) = 0
    THEN Raise("ValueError", "zero-size array to reduction operation maximum which has no identity")
    ELSE IF FlGT(FlSub(SeqMax(time_diff), SeqMin(time_diff)), tol)
    THEN Raise("ArithmeticError", "time_series is not equally spaced")
    ELSE calc_step_mean(Mean(time_diff), it_time, tol)

calc_step(time, it_time, tol) == calc_step_diff(Diff(time), it_time, tol)

RECURSIVE WeightedSum_skip_first(_, _, _, _, _)
\* WeightedSum with the loop starting at mode 1
WeightedSum_skip_first(cube, coeff, r, c, k) ==
    IF k <= 1 THEN RatInt(0)
    ELSE RatAdd(WeightedSum_skip_first(cube, coeff, r, c, k - 1),
                RatScale(coeff[k], cube.pix[<<k - 1, r, c>>]))

RECURSIVE WeightedSum(_, _, _, _, _)
\* phase[r, c] after the loop has added the modes 0 .. k-1
WeightedSum(cube, coeff, r, c, k) ==
    IF k = 0 THEN RatInt(0)
    ELSE RatAdd(WeightedSum(cube, coeff, r, c, k - 1),
                RatScale(coeff[k], cube.pix[<<k - 1, r, c>>]))

\* a pixel that holds a number (not a term in arctan2, cos and sin)
IsNumber(p) == "num" \in DOMAIN p

\* float32 of phase[r, c] after the loop over all modes: the number when
\* every cube[k, r, c] is one, else the term float32(0 + coeff[0] *
\* cube[0, r, c] + ... ) with the summands in loop order
PhasePixel(cube, coeff, r, c) ==
    IF \A k \in 0 .. Len(coeff) - 1 : IsNumber(cube.pix[<<k, r, c>>])
    THEN Float32(WeightedSum(cube, coeff, r, c, Len(coeff)))
    ELSE [float32 |-> [k \in 1 .. Len(coeff) |-> <<coeff[k], cube.pix[<<k - 1, r, c>>]>>]]

calc_phase_screen(cube, coeff, n_zpol) ==
    IF cube.side = 0
    THEN Raise("IndexError", "index 0 is out of bounds for axis 1 with size 0")
    ELSE IF Len(coeff) # cube.nz
    THEN Raise("ArithmeticError", "The number of coefficients and Zernike polynomials must be equal.")
    ELSE IF n_zpol # Len(coeff)
    THEN Raise("ArithmeticError", "The number of coefficients, Zernike polynomials and num_zpol must be equal.")
    ELSE IF cube.nz = 0
    THEN Raise("IndexError", "index 0 is out of bounds for axis 0 with size 0")
    ELSE Return([side |-> cube.side,
                 pix |-> [t \in (0 .. cube.side - 1) \X (0 .. cube.side - 1) |->
                            PhasePixel(cube, coeff, t[1], t[2])]])

\* numpy.ceil(n / 2) * 2 for an integer n >= 0
CeilEven(n) == n + (n % 2)

calc_trunc(spupil_size, tel_diam, diam) ==
    LET scale == F64Div(F64FromInt(tel_diam), F64FromInt(spupil_size))
    IN  IF diam = 0 THEN 0
        ELSE CeilEven(F64Floor(F64Div(F64FromInt(diam), scale)))

\* int(x / 2) for an integer x: truncation toward zero
IntHalf(x) == IF x >= 0 THEN x \div 2 ELSE 0 - ((0 - x) \div 2)

\* numpy.ravel of a 2-D array given as a sequence of rows
RECURSIVE Ravel(_)
Ravel(a) == IF a = <<>> THEN <<>> ELSE a[1] \o Ravel(Tail(a))

\* the float64 literal 1e-12 that init_z_aber passes as tol
InitTol == [sg |-> 1, hi |-> 36893488, lo |-> 19786257, ex |-> -92]

\* the float64 literal 1e-10, the default tol of calc_step
DefaultTol == [sg |-> 1, hi |-> 57646075, lo |-> 30916027, ex |-> -86]

\* ------------------------------------------------------------------------
\* State
\* ------------------------------------------------------------------------
VARIABLES
    p_z_ab,     \* sim.config.p_z_ab: parameters and derived aberration data
    p_tel,      \* sim.config.p_tel: [diam]
    p_geom,     \* sim.config.p_geom: [pupdiam, n] (n is _n)
    p_loop,     \* sim.config.p_loop: [ittime]
    matfile,    \* the variables stored in file_dir + file_name
    tel,        \* sim.tel: [phase_ab_M1, phase_ab_M1_m]
    pc,         \* position of init_z_aber
    err,        \* the exception that ended the call, or None
    stdout,     \* lines printed by the current call
    old,        \* the simulator as the current call found it: p_z_ab, tel and
                \* how the call before it ended (pc, err)
    ncalls,     \* calls of init_z_aber so far
    call        \* last direct call of a utility function: [fn, args, ret]

vars == <<p_z_ab, p_tel, p_geom, p_loop, matfile, tel, pc, err, stdout, old, ncalls, call>>

simvars == <<p_z_ab, p_tel, p_geom, p_loop, matfile, tel, stdout, old, ncalls>>

\* ------------------------------------------------------------------------
\* init_z_aber, lines 304-378: geometry resolution and the basis cubes.
\* Returns the configuration as left by the block and the exception raised
\* in it (None when the block completes).
\* ------------------------------------------------------------------------
SetCubes(z, spup, mpup) == [z EXCEPT !.zcube_spup = Some(spup), !.zcube_mpup = Some(mpup)]

\* lines 326-351: the cube on diam_data_pix pixels, cropped to the two pupils
crop_data_cube(z, geom, diam_data_pix, zc) ==
    IF ~zc.ok THEN [z |-> z, exc |-> zc]
    ELSE IF diam_data_pix > geom.n
    THEN [z |-> SetCubes(z, CubeSlice(zc.val, IntHalf(diam_data_pix - geom.pupdiam),
                                      0 - IntHalf(diam_data_pix - geom.pupdiam)),
                            CubeSlice(zc.val, IntHalf(diam_data_pix - geom.n),
                                      0 - IntHalf(diam_data_pix - geom.n))),
          exc |-> Return(None)]
    ELSE IF diam_data_pix = geom.n
    THEN [z |-> SetCubes(z, CubeSlice(zc.val, IntHalf(diam_data_pix - geom.pupdiam),
                                      0 - IntHalf(diam_data_pix - geom.pupdiam)),
                            zc.val),
          exc |-> Return(None)]
    ELSE [z |-> z, exc |-> Raise("ArithmeticError",
             "The diameter of the Zernike aberration must be as large as the mpupil.")]

\* lines 319-351: the cube is generated on the data diameter in pixels
fit_data_diam(z, geom, diam_data_pix) ==
    crop_data_cube(z, geom, diam_data_pix, calc_zcube(z.num_zpol, PyInt(diam_data_pix)))

\* lines 360-374: pup_diam = -2, the cube is generated on the mpupil
fit_mpupil(z, geom, zc) ==
    IF ~zc.ok THEN [z |-> z, exc |-> zc]
    ELSE [z |-> SetCubes(z, CubeSlice(zc.val, IntHalf(geom.n - geom.pupdiam),
                                      0 - IntHalf(geom.n - geom.pupdiam)),
                            zc.val),
          exc |-> Return(None)]

\* resolve_geometry rejecting only pup_diam > diam_data
resolve_geometry_gt(z0, tel_diam, geom) ==
    LET z == IF z0.pup_diam = -1 THEN [z0 EXCEPT !.pup_diam = tel_diam] ELSE z0
    IN  IF z.pup_diam > 0
        THEN IF z.pup_diam > z.diam_data
             THEN [z |-> z, exc |-> Raise("ArithmeticError",
                      "The telescope diameter (pup_diam) mustbe smaller than the data diameter (diam_data)")]
             ELSE fit_data_diam(z, geom, calc_trunc(geom.pupdiam, z.pup_diam, z.diam_data))
        ELSE IF z.pup_diam = -2
        THEN fit_mpupil(z, geom, calc_zcube(z.num_zpol, PyInt(geom.n)))
        ELSE [z |-> z, exc |-> Raise("TypeError", "pup_diam must be a float >0. or =-1. or =-2.")]

\* resolve_geometry using the telescope diameter for the sentinel -1
\* without writing it to pup_diam
resolve_geometry_keep_sentinel(z0, tel_diam, geom) ==
    LET d == IF z0.pup_diam = -1 THEN tel_diam ELSE z0.pup_diam
    IN  IF d > 0
        THEN IF d >= z0.diam_data
             THEN [z |-> z0, exc |-> Raise("ArithmeticError",
                      "The telescope diameter (pup_diam) mustbe smaller than the data diameter (diam_data)")]
             ELSE fit_data_diam(z0, geom, calc_trunc(geom.pupdiam, d, z0.diam_data))
        ELSE IF z0.pup_diam = -2
        THEN fit_mpupil(z0, geom, calc_zcube(z0.num_zpol, PyInt(geom.n)))
        ELSE [z |-> z0, exc |-> Raise("TypeError", "pup_diam must be a float >0. or =-1. or =-2.")]

\* lines 304-378
resolve_geometry(z0, tel_diam, geom) ==
    LET z == IF z0.pup_diam = -1 THEN [z0 EXCEPT !.pup_diam = tel_diam] ELSE z0
    IN  IF z.pup_diam > 0
        THEN IF z.pup_diam >= z.diam_data
             THEN [z |-> z, exc |-> Raise("ArithmeticError",
                      "The telescope diameter (pup_diam) mustbe smaller than the data diameter (diam_data)")]
             ELSE fit_data_diam(z, geom, calc_trunc(geom.pupdiam, z.pup_diam, z.diam_data))
        ELSE IF z.pup_diam = -2
        THEN fit_mpupil(z, geom, calc_zcube(z.num_zpol, PyInt(geom.n)))
        ELSE [z |-> z, exc |-> Raise("TypeError", "pup_diam must be a float >0. or =-1. or =-2.")]

\* load_series with the two loads in the other order
load_series_time_first(z, store) ==
    LET c == load_variable(store, z.mat_vers, "coeff")
        t == load_variable(store, z.mat_vers, "time")
    IN  IF ~t.ok THEN [z |-> z, exc |-> t]
        ELSE LET z1 == [z EXCEPT !.time_series = Some(Ravel(t.val))]
             IN  IF ~c.ok THEN [z |-> z1, exc |-> c]
                 ELSE [z |-> [z1 EXCEPT !.coeff_series = Some(c.val)], exc |-> Return(None)]

\* lines 380-392: the two loads
load_series(z, store) ==
    LET c == load_variable(store, z.mat_vers, "coeff")
        t == load_variable(store, z.mat_vers, "time")
    IN  IF ~c.ok THEN [z |-> z, exc |-> c]
        ELSE LET z1 == [z EXCEPT !.coeff_series = Some(c.val)]
             IN  IF ~t.ok THEN [z |-> z1, exc |-> t]
                 ELSE [z |-> [z1 EXCEPT !.time_series = Some(Ravel(t.val))], exc |-> Return(None)]

\* lines 394-402: step and decimation
set_step_dec_of(z, s, ittime) ==
    IF ~s.ok THEN [z |-> z, exc |-> s]
    ELSE [z |-> [z EXCEPT !.step = Some(s.val),
                           !.dec = Some(FlRintInt(FlDiv(s.val, ittime)))],
          exc |-> Return(None)]

set_step_dec(z, ittime) ==
    set_step_dec_of(z, calc_step(Get(z.time_series), ittime, InitTol), ittime)

\* synthesize writing the margined-pupil screen for include_path = 2 only
synthesize_mp_only_2(z, t) ==
    LET sp == calc_phase_screen(Get(z.zcube_spup), Get(z.coeff_series)[1], z.num_zpol)
        mp == calc_phase_screen(Get(z.zcube_mpup), Get(z.coeff_series)[1], z.num_zpol)
        want_sp == z.include_path = 1 \/ z.include_path = 3
        want_mp == z.include_path = 2
    IN  IF want_sp /\ ~sp.ok THEN [tel |-> t, exc |-> sp]
        ELSE LET t1 == IF want_sp THEN [t EXCEPT !.phase_ab_M1 = Some(sp.val)] ELSE t
             IN  IF want_mp /\ ~mp.ok THEN [tel |-> t1, exc |-> mp]
                 ELSE [tel |-> IF want_mp THEN [t1 EXCEPT !.phase_ab_M1_m = Some(mp.val)] ELSE t1,
                       exc |-> Return(None)]

\* lines 404-416: the phase screens of the first time sample
synthesize(z, t) ==
    LET sp == calc_phase_screen(Get(z.zcube_spup), Get(z.coeff_series)[1], z.num_zpol)
        mp == calc_phase_screen(Get(z.zcube_mpup), Get(z.coeff_series)[1], z.num_zpol)
        want_sp == z.include_path = 1 \/ z.include_path = 3
        want_mp == z.include_path = 2 \/ z.include_path = 3
    IN  IF want_sp /\ ~sp.ok THEN [tel |-> t, exc |-> sp]
        ELSE LET t1 == IF want_sp THEN [t EXCEPT !.phase_ab_M1 = Some(sp.val)] ELSE t
             IN  IF want_mp /\ ~mp.ok THEN [tel |-> t1, exc |-> mp]
                 ELSE [tel |-> IF want_mp THEN [t1 EXCEPT !.phase_ab_M1_m = Some(mp.val)] ELSE t1,
                       exc |-> Return(None)]

\* lines 418-445: the status block
ReportHead(z) ==
    << Line("", 0), Line("*-------------------------------", 0),
       Line("CUSTOM ZERNIKE ABERRATIONS", 0), Line("status: enabled", 0),
       Line("source file: ", 0), Line("number of modes: ", z.num_zpol) >>

Inclusion(z) ==
    CASE z.include_path = 0 -> Some(Line("inclusion: not included", 0))
      [] z.include_path = 1 -> Some(Line("inclusion: science (target) path", 0))
      [] z.include_path = 2 -> Some(Line("inclusion: analytic (WFS) path", 0))
      [] z.include_path = 3 -> Some(Line("inclusion: science (target) and analytic (WFS) path", 0))
      [] OTHER -> None

report_enabled(z) ==
    IF Inclusion(z) = None
    THEN [out |-> ReportHead(z),
          exc |-> Raise("TypeError", "Something strange happened. include_path must be 0, 1, 2 or 3.")]
    ELSE IF z.pup_diam > 0
    THEN [out |-> ReportHead(z) \o Inclusion(z) \o
                  << Line("telescope diameter: ", z.pup_diam),
                     Line("*-------------------------------", 0) >>,
          exc |-> Return(None)]
    ELSE IF z.pup_diam = -2
    THEN [out |-> ReportHead(z) \o Inclusion(z) \o
                  << Line("telescope diameter: data fitted to simulation", 0),
                     Line("*-------------------------------", 0) >>,
          exc |-> Return(None)]
    ELSE [out |-> ReportHead(z) \o Inclusion(z),
          exc |-> Raise("TypeError", "Oops, something strange happened. pup_diam must be > 0.0 or -1.0 or -2.0.")]

\* lines 447-453
report_disabled ==
    << Line("", 0), Line("*-------------------------------", 0),
       Line("CUSTOM ZERNIKE ABERRATIONS", 0), Line("status: disabled", 0),
       Line("*-------------------------------", 0) >>

\* ------------------------------------------------------------------------
\* Initial states: a simulator before its first init_z_aber
\* ------------------------------------------------------------------------
ZpolCounts == {1, 3, 23}

IncludePaths == 0 .. 4

MatVers == {"v7", "v7.3", "v5"}

\* the telescope diameter is read only when pup_diam is the sentinel -1
Geometries ==
    { [pup_diam |-> pd, tel_diam |-> 1, diam_data |-> dd, pupdiam |-> sp, n |-> sp + mg] :
        pd \in {-2, 0} \cup (1 .. MaxDiam),
        dd \in 1 .. MaxDiam + 1, sp \in 1 .. MaxPupdiam, mg \in 0 .. MaxMargin }
    \cup
    { [pup_diam |-> -1, tel_diam |-> td, diam_data |-> dd, pupdiam |-> sp, n |-> sp + mg] :
        td \in 1 .. MaxDiam,
        dd \in 1 .. MaxDiam + 1, sp \in 1 .. MaxPupdiam, mg \in 0 .. MaxMargin }

RefGeometries ==
    { [pup_diam |-> -2, tel_diam |-> 1, diam_data |-> 2, pupdiam |-> 2, n |-> 4],
      [pup_diam |-> 1, tel_diam |-> 1, diam_data |-> 2, pupdiam |-> 2, n |-> 4] }

\* time stamps 0, d1, d1 + d2, ... as the column vector the file stores
RECURSIVE Stamps(_, _)
Stamps(t0, diffs) ==
    IF diffs = <<>> THEN << <<t0>> >> ELSE << <<t0>> >> \o Stamps(t0 + diffs[1], Tail(diffs))

\* the stamps of a file are the decimal literals k or k/10 (seconds)
Scales == {1, 10}

FloatColumn(col, q) == [i \in 1 .. Len(col) |-> << FlDec(col[i][1], q) >>]

TimeColumnsAt(q) ==
    { FloatColumn(Stamps(0, d), q) :
        d \in UNION { [1 .. k -> 1 .. MaxStep] : k \in 0 .. MaxSamples - 1 } }

TimeColumns == UNION { TimeColumnsAt(q) : q \in Scales }

\* p_loop.ittime: the decimal literals j or j/10 (seconds)
IttimesAt(q) == { FlDec(j, q) : j \in 1 .. MaxIttime }

Ittimes == UNION { IttimesAt(q) : q \in Scales }

CoeffRows == { <<1>>, <<2, -1, 1>> }

\* a coefficient series of two time samples
CoeffSeries(row) == << row, [k \in 1 .. Len(row) |-> 0] >>

\* the files with stamps at scale q, and the files that miss a variable
Stores(q) ==
    { [coeff |-> CoeffSeries(r), time |-> t] : r \in CoeffRows, t \in TimeColumnsAt(q) }
    \cup { [coeff |-> CoeffSeries(r)] : r \in CoeffRows }
    \cup { [time |-> FloatColumn(Stamps(0, <<2, 2>>), q)] }

RefStore(nz) ==
    [coeff |-> CoeffSeries(IF nz = 1 THEN <<1>> ELSE <<2, -1, 1>>),
     time |-> FloatColumn(Stamps(0, <<2, 2>>), 1)]

NewZab(en, geo, nz, ip, vers) ==
    [include_zab |-> en, num_zpol |-> nz, pup_diam |-> geo.pup_diam,
     diam_data |-> geo.diam_data, mat_vers |-> vers, include_path |-> ip,
     zcube_spup |-> None, zcube_mpup |-> None, coeff_series |-> None,
     time_series |-> None, step |-> None, dec |-> None]

NewTel == [phase_ab_M1 |-> None, phase_ab_M1_m |-> None]

NoError == [exc |-> "", msg |-> "", at |-> ""]

NoCall == [fn |-> "", args |-> <<>>, ret |-> Return(None)]

InitSim(en, geo, nz, ip, vers, st, it) ==
    /\ p_z_ab = NewZab(en, geo, nz, ip, vers)
    /\ p_tel = [diam |-> geo.tel_diam]
    /\ p_geom = [pupdiam |-> geo.pupdiam, n |-> geo.n]
    /\ p_loop = [ittime |-> it]
    /\ matfile = st
    /\ tel = NewTel
    /\ err = NoError
    /\ stdout = <<>>
    /\ old = [p_z_ab |-> NewZab(en, geo, nz, ip, vers), tel |-> NewTel,
              pc |-> "Idle", err |-> NoError]
    /\ ncalls = 0
    /\ call = NoCall

\* every geometry, on a well-formed file
InitGeometry ==
    \E geo \in Geometries, nz \in ZpolCounts :
        /\ InitSim(TRUE, geo, nz, 3, "v7", RefStore(nz), FlInt(1))
        /\ pc = "Idle"

\* every include_path, on a well-formed file and a geometry that resolves
InitPath ==
    \E geo \in RefGeometries, nz \in ZpolCounts, ip \in IncludePaths :
        /\ InitSim(TRUE, geo, nz, ip, "v7", RefStore(nz), FlInt(1))
        /\ pc = "Idle"

\* every file and every format, on a geometry that resolves
InitData ==
    \E geo \in { g \in RefGeometries : g.pup_diam = -2 }, nz \in {1, 3}, ip \in {0, 3} :
        /\ \/ \E q \in Scales :
                 \E st \in Stores(q), it \in IttimesAt(q) :
                     InitSim(TRUE, geo, nz, ip, "v7", st, it)
           \/ \E vers \in MatVers :
                 InitSim(TRUE, geo, nz, ip, vers, RefStore(nz), FlInt(1))
        /\ pc = "Idle"

InitDisabled ==
    \E geo \in RefGeometries, nz \in ZpolCounts, ip \in IncludePaths, vers \in MatVers :
        /\ InitSim(FALSE, geo, nz, ip, vers, RefStore(nz), FlInt(1))
        /\ pc = "Idle"

\* no simulator run: the utility functions are called directly
InitUnit ==
    /\ InitSim(FALSE, CHOOSE g \in RefGeometries : g.pup_diam = -2, 1, 0, "v7", RefStore(1), FlInt(1))
    /\ pc = "Unit"

Init == InitGeometry \/ InitPath \/ InitData \/ InitDisabled \/ InitUnit

\* ------------------------------------------------------------------------
\* init_z_aber(sim), one action per block of the function
\* ------------------------------------------------------------------------
Fail(exc, at) ==
    /\ pc' = "Failed"
    /\ err' = [exc |-> exc.exc, msg |-> exc.msg, at |-> at]

\* the block ended: go on to the next block, or leave with the exception
Proceed(exc, next, at) ==
    IF exc.ok THEN pc' = next /\ err' = err ELSE Fail(exc, at)

\* a block that writes sim.config.p_z_ab
ConfigBlock(r, next, at) == p_z_ab' = r.z /\ Proceed(r.exc, next, at)

\* the block that writes sim.tel
TelBlock(r, next, at) == tel' = r.tel /\ Proceed(r.exc, next, at)

\* the block that prints
PrintBlock(r, next, at) == stdout' = stdout \o r.out /\ Proceed(r.exc, next, at)

\* the driver calls init_z_aber(sim)
Enter ==
    /\ pc \in {"Idle", "Done", "Reported", "Failed"}
    /\ ncalls < MaxCalls
    /\ pc' = "Entered"
    /\ err' = NoError
    /\ stdout' = <<>>
    /\ old' = [p_z_ab |-> p_z_ab, tel |-> tel, pc |-> pc, err |-> err]
    /\ ncalls' = ncalls + 1
    /\ UNCHANGED <<p_z_ab, p_tel, p_geom, p_loop, matfile, tel, call>>

\* lines 302, 447-453: nothing to initialize
Disabled ==
    /\ pc = "Entered"
    /\ ~p_z_ab.include_zab
    /\ stdout' = stdout \o report_disabled
    /\ pc' = "Done"
    /\ UNCHANGED <<p_z_ab, p_tel, p_geom, p_loop, matfile, tel, err, old, ncalls, call>>

\* lines 302-378
ResolveGeometry ==
    /\ pc = "Entered"
    /\ p_z_ab.include_zab
    /\ ConfigBlock(resolve_geometry(p_z_ab, p_tel.diam, p_geom), "GeometryResolved", "ResolveGeometry")
    /\ UNCHANGED <<p_tel, p_geom, p_loop, matfile, tel, stdout, old, ncalls, call>>

\* lines 380-392
LoadData ==
    /\ pc = "GeometryResolved"
    /\ ConfigBlock(load_series(p_z_ab, matfile), "SeriesLoaded", "LoadData")
    /\ UNCHANGED <<p_tel, p_geom, p_loop, matfile, tel, stdout, old, ncalls, call>>

\* lines 394-402
ValidateStep ==
    /\ pc = "SeriesLoaded"
    /\ ConfigBlock(set_step_dec(p_z_ab, p_loop.ittime), "DataLoaded", "ValidateStep")
    /\ UNCHANGED <<p_tel, p_geom, p_loop, matfile, tel, stdout, old, ncalls, call>>

\* lines 404-416
Synthesize ==
    /\ pc = "DataLoaded"
    /\ TelBlock(synthesize(p_z_ab, tel), "ScreensSynthesized", "Synthesize")
    /\ UNCHANGED <<p_z_ab, p_tel, p_geom, p_loop, matfile, stdout, old, ncalls, call>>

\* Report printing the status block ahead of the screen synthesis
Report_early ==
    /\ pc = "DataLoaded"
    /\ PrintBlock(report_enabled(p_z_ab), "Reported", "Report")
    /\ UNCHANGED <<p_z_ab, p_tel, p_geom, p_loop, matfile, tel, old, ncalls, call>>

\* lines 418-445
Report ==
    /\ pc = "ScreensSynthesized"
    /\ PrintBlock(report_enabled(p_z_ab), "Reported", "Report")
    /\ UNCHANGED <<p_z_ab, p_tel, p_geom, p_loop, matfile, tel, old, ncalls, call>>

\* ------------------------------------------------------------------------
\* Direct calls of the utility functions
\* ------------------------------------------------------------------------
TruncArgs ==
    { <<sp, td, d>> : sp \in 1 .. MaxRefPix, td \in 1 .. MaxRefDiam, d \in 0 .. MaxRefDiam }
    \cup { <<100, 8, 4>> }

Tolerances == { FlZero, InitTol, DefaultTol, FlDec(1, 2), FlInt(1) }

StepArgs ==
    { <<Ravel(t), it, tol>> : t \in TimeColumns, it \in Ittimes, tol \in Tolerances }
    \cup { << <<FlZero, FlDec(1, 10), FlDec(2, 10), FlDec(3, 10)>>, FlDec(1, 100), DefaultTol >>,
           << <<FlZero, FlDec(1, 10), FlDec(2, 10), FlDec(3, 10)>>, FlDec(1, 10), DefaultTol >>,
           << <<FlZero, FlDec(1, 10), FlDec(25, 100)>>, FlDec(1, 100), DefaultTol >> }

ZcubeArgs ==
    { <<nz, g>> : nz \in {0, 1, 2, 3, 23, 24},
                  g \in { PyInt(i) : i \in -3 .. MaxPupdiam } \cup { PyFloat(2) } }

PixelValues == { -1, 16777217 }

CoeffValues == { 0, 1, -2 }

\* the cube with pix[k, r, c] = a[k + 1] * (1 + 2r + c)
MakeCube(a, sd) ==
    [nz |-> Len(a), side |-> sd,
     pix |-> [t \in (0 .. Len(a) - 1) \X (0 .. sd - 1) \X (0 .. sd - 1) |->
                RatInt(a[t[1] + 1] * (1 + 2 * t[2] + t[3]))]]

UnitCubes ==
    { MakeCube(a, sd) : a \in UNION { [1 .. k -> PixelValues] : k \in 0 .. MaxModes },
                        sd \in 0 .. MaxSide }

PhaseArgs ==
    { <<cube, coeff, Len(coeff) + dn>> :
        cube \in UnitCubes,
        coeff \in UNION { [1 .. k -> CoeffValues] : k \in 0 .. MaxModes + 1 },
        dn \in {0, 1} }

UnitCalcTrunc ==
    /\ pc = "Unit"
    /\ call = NoCall
    /\ \E a \in TruncArgs :
           call' = [fn |-> "calc_trunc", args |-> a,
                    ret |-> Return(calc_trunc(a[1], a[2], a[3]))]
    /\ UNCHANGED <<simvars, pc, err>>

UnitCalcStep ==
    /\ pc = "Unit"
    /\ call = NoCall
    /\ \E a \in StepArgs :
           call' = [fn |-> "calc_step", args |-> a, ret |-> calc_step(a[1], a[2], a[3])]
    /\ UNCHANGED <<simvars, pc, err>>

UnitCalcZcube ==
    /\ pc = "Unit"
    /\ call = NoCall
    /\ \E a \in ZcubeArgs :
           call' = [fn |-> "calc_zcube", args |-> a, ret |-> calc_zcube(a[1], a[2])]
    /\ UNCHANGED <<simvars, pc, err>>

UnitCalcPhaseScreen ==
    /\ pc = "Unit"
    /\ call = NoCall
    /\ \E a \in PhaseArgs :
           call' = [fn |-> "calc_phase_screen", args |-> a,
                    ret |-> calc_phase_screen(a[1], a[2], a[3])]
    /\ UNCHANGED <<simvars, pc, err>>

Next ==
    \/ Enter
    \/ Disabled
    \/ ResolveGeometry
    \/ LoadData
    \/ ValidateStep
    \/ Synthesize
    \/ Report
    \/ UnitCalcTrunc
    \/ UnitCalcStep
    \/ UnitCalcZcube
    \/ UnitCalcPhaseScreen

Spec == Init /\ [][Next]_vars

\* ------------------------------------------------------------------------
\* The error taxonomy of the specification, by raise site
\* ------------------------------------------------------------------------
SpecError(e) ==
    CASE e.exc = "ArithmeticError" /\ e.msg = "The telescope diameter (pup_diam) mustbe smaller than the data diameter (diam_data)"
            -> "GeometryError"
      [] e.exc = "ArithmeticError" /\ e.msg = "The diameter of the Zernike aberration must be as large as the mpupil."
            -> "GeometryError"
      [] e.exc = "TypeError" /\ e.msg = "pup_diam must be a float >0. or =-1. or =-2."
            -> "InvalidParameterError"
      [] e.exc = "TypeError" /\ e.msg = "Something strange happened. include_path must be 0, 1, 2 or 3."
            -> "InvalidParameterError"
      [] e.exc = "TypeError" /\ e.msg = "Oops, something strange happened. pup_diam must be > 0.0 or -1.0 or -2.0."
            -> "InvalidParameterError"
      [] e.exc = "TypeError" /\ e.msg = "grid_p must be a POSITIVE integer."
            -> "InvalidGridError"
      [] e.exc = "NotImplementedError"
            -> "UnsupportedOrderError"
      [] e.exc = "TypeError" /\ e.msg = "Unexpected Error: mat_vers must be v4 or v6 or v7 or v7.3"
            -> "UnsupportedFormatError"
      [] e.exc = "ArithmeticError" /\ e.msg = "time_series is not equally spaced"
            -> "NonUniformSamplingError"
      [] e.exc = "ArithmeticError" /\ e.msg = "steps of time_series are smaller than the iteration time"
            -> "SubIterationStepError"
      [] e.exc = "ArithmeticError" /\ e.msg = "steps of time_series are not a multiple of the iteration time"
            -> "NonIntegerDecimationError"
      [] e.exc = "ArithmeticError" /\ e.msg = "The number of coefficients and Zernike polynomials must be equal."
            -> "DimensionMismatchError"
      [] e.exc = "ArithmeticError" /\ e.msg = "The number of coefficients, Zernike polynomials and num_zpol must be equal."
            -> "DimensionMismatchError"
      [] OTHER -> e.exc

\* the attributes init_z_aber derives, in the order it writes them
Derived == {"zcube_spup", "zcube_mpup", "coeff_series", "time_series", "step", "dec"}

Kept(fields) == \A f \in fields : p_z_ab[f] = old.p_z_ab[f]

\* ------------------------------------------------------------------------
\* C1
\* ------------------------------------------------------------------------
\* C1 as stated: a failed call leaves the configuration and the optical-path
\* model exactly as they were when the call was entered.
C1_NoPartialState ==
    pc = "Failed" => (p_z_ab = old.p_z_ab /\ tel = old.tel)

\* C1 (amended): a failed call leaves unchanged every output whose write
\* comes at or after the failing step, in the write order pup_diam (only
\* replaced for the sentinel -1), zcube_spup and zcube_mpup, coeff_series,
\* time_series, step and dec, phase_ab_M1, phase_ab_M1_m; what the earlier
\* steps wrote stays written.
C1_StepwiseCommit ==
    pc = "Failed" =>
        /\ p_z_ab.pup_diam # old.p_z_ab.pup_diam =>
               (old.p_z_ab.pup_diam = -1 /\ p_z_ab.pup_diam = p_tel.diam)
        /\ err.at = "ResolveGeometry" => (Kept(Derived) /\ tel = old.tel)
        /\ err.at = "LoadData" =>
               /\ Kept({"time_series", "step", "dec"}) /\ tel = old.tel
               /\ (err.exc = "TypeError" \/ err.msg = "coeff") => Kept({"coeff_series"})
        /\ err.at = "ValidateStep" => (Kept({"step", "dec"}) /\ tel = old.tel)
        /\ err.at = "Synthesize" =>
               /\ tel.phase_ab_M1_m = old.tel.phase_ab_M1_m
               /\ p_z_ab.include_path # 3 => tel = old.tel
        /\ err.at = "Report" => tel = old.tel

\* a call that failed on the time grid after both series were written
C1_Witness ==
    /\ pc = "Failed" /\ err.at = "ValidateStep" /\ ncalls = 1
    /\ p_z_ab.coeff_series # None /\ p_z_ab.time_series # None
    /\ p_z_ab.step = None /\ p_z_ab.dec = None

\* ------------------------------------------------------------------------
\* C2, C3
\* ------------------------------------------------------------------------
\* the mat-file is well formed for the configuration: supported format, both
\* variables present, coefficient rows of num_zpol entries, a time grid that
\* calc_step accepts
ValidFile ==
    /\ p_z_ab.mat_vers \in {"v4", "v6", "v7", "v7.3"}
    /\ DOMAIN matfile = {"coeff", "time"}
    /\ \A i \in 1 .. Len(matfile.coeff) : Len(matfile.coeff[i]) = p_z_ab.num_zpol
    /\ calc_step(Ravel(matfile.time), p_loop.ittime, InitTol).ok

Side(screen) == Get(screen).side

\* C2: with aberration enabled, pup_diam = -2, include_path = 3,
\* _n >= pupdiam >= 1 and a valid file, init_z_aber succeeds and leaves a
\* small-pupil screen of shape (pupdiam, pupdiam) and a margined-pupil
\* screen of shape (_n, _n), for every margin _n - pupdiam.
C2_AutoFitScreens ==
    ( /\ p_z_ab.include_zab /\ old.p_z_ab.pup_diam = -2 /\ p_z_ab.include_path = 3
      /\ p_z_ab.num_zpol <= NZpolImplemented
      /\ p_geom.n >= p_geom.pupdiam /\ p_geom.pupdiam >= 1
      /\ ValidFile )
    => /\ pc # "Failed"
       /\ pc = "Reported" =>
              /\ tel.phase_ab_M1 # None /\ Side(tel.phase_ab_M1) = p_geom.pupdiam
              /\ tel.phase_ab_M1_m # None /\ Side(tel.phase_ab_M1_m) = p_geom.n

\* the untruncated cube of the explicit branch and its pixel diameter
DataPix == calc_trunc(p_geom.pupdiam, p_z_ab.pup_diam, p_z_ab.diam_data)

\* cube is the central crop of side s of the full cube
CentralCrop(cube, full, s) ==
    /\ cube.nz = full.nz
    /\ cube.side = s
    /\ \A k \in 0 .. cube.nz - 1, r \in 0 .. s - 1, c \in 0 .. s - 1 :
           cube.pix[<<k, r, c>>] =
               full.pix[<<k, r + (full.side - s) \div 2, c + (full.side - s) \div 2>>]

\* C3: in the explicit / fit-to-telescope branch, with data pixel diameter
\* d >= _n >= pupdiam, the stored small-pupil cube has side pupdiam and the
\* stored margined-pupil cube has side _n, each the central crop of the
\* untruncated d x d cube.
C3_ExplicitCrop ==
    ( /\ pc = "GeometryResolved" /\ p_z_ab.pup_diam > 0
      /\ DataPix >= p_geom.n /\ p_geom.n >= p_geom.pupdiam )
    => LET full == calc_zcube(p_z_ab.num_zpol, PyInt(DataPix)).val
       IN  /\ CentralCrop(Get(p_z_ab.zcube_spup), full, p_geom.pupdiam)
           /\ CentralCrop(Get(p_z_ab.zcube_mpup), full, p_geom.n)

\* ------------------------------------------------------------------------
\* C4
\* ------------------------------------------------------------------------
\* the call has completed screen synthesis (lines 404-416)
PastSynthesis ==
    \/ pc \in {"ScreensSynthesized", "Reported"}
    \/ (pc = "Failed" /\ err.at = "Report")

\* the screen of the first time sample on a stored cube
FirstScreen(cube) ==
    Some(calc_phase_screen(Get(cube), Get(p_z_ab.coeff_series)[1], p_z_ab.num_zpol).val)

\* C4: once an enabled call has completed screen synthesis, the screens it
\* wrote are those include_path selects: 0 neither, 1 only phase_ab_M1,
\* 2 only phase_ab_M1_m, 3 both, the other screen being left as it was; for
\* any other value no screen is written and the call fails with
\* InvalidParameterError.
C4_ScreensByIncludePath ==
    PastSynthesis =>
        LET ip == p_z_ab.include_path
        IN  /\ ip \in {1, 3} => tel.phase_ab_M1 = FirstScreen(p_z_ab.zcube_spup)
            /\ ip \notin {1, 3} => tel.phase_ab_M1 = old.tel.phase_ab_M1
            /\ ip \in {2, 3} => tel.phase_ab_M1_m = FirstScreen(p_z_ab.zcube_mpup)
            /\ ip \notin {2, 3} => tel.phase_ab_M1_m = old.tel.phase_ab_M1_m
            /\ ip \notin 0 .. 3 =>
                   /\ pc # "Reported"
                   /\ pc = "Failed" => SpecError(err) = "InvalidParameterError"
            /\ ip \in 0 .. 3 => pc # "Failed"

\* a first call with include_path = 2 has run to its end: only the
\* margined-pupil screen is there
C4_Witness ==
    /\ pc = "Reported" /\ ncalls = 1 /\ p_z_ab.include_path = 2
    /\ tel.phase_ab_M1 = None /\ tel.phase_ab_M1_m # None

\* ------------------------------------------------------------------------
\* C5
\* ------------------------------------------------------------------------
Running == {"Entered", "GeometryResolved", "SeriesLoaded", "DataLoaded", "ScreensSynthesized"}

Edges ==
    { <<"Idle", "Entered">>, <<"Done", "Entered">>, <<"Reported", "Entered">>,
      <<"Failed", "Entered">>,
      <<"Entered", "Done">>, <<"Entered", "GeometryResolved">>,
      <<"GeometryResolved", "SeriesLoaded">>, <<"SeriesLoaded", "DataLoaded">>,
      <<"DataLoaded", "ScreensSynthesized">>, <<"ScreensSynthesized", "Reported">> }
    \cup { <<q, "Failed">> : q \in Running \ {"Entered"} } \cup { <<"Entered", "Failed">> }

\* what every state of a call shows of the steps behind it
C5_Stages ==
    /\ pc = "Done" =>
           /\ ~p_z_ab.include_zab
           /\ p_z_ab = old.p_z_ab /\ tel = old.tel
           /\ stdout = report_disabled
    /\ pc \in {"SeriesLoaded", "DataLoaded", "ScreensSynthesized", "Reported"} =>
           /\ p_z_ab.zcube_spup # None /\ p_z_ab.zcube_mpup # None
           /\ p_z_ab.coeff_series # None /\ p_z_ab.time_series # None
    /\ pc \in {"DataLoaded", "ScreensSynthesized", "Reported"} =>
           p_z_ab.step # None /\ p_z_ab.dec # None
    /\ pc \in Running => stdout = <<>>
    /\ pc = "Reported" =>
           /\ p_z_ab.include_zab
           /\ Len(stdout) = 9
           /\ stdout[4] = Line("status: enabled", 0)
           /\ p_z_ab.include_path \in {1, 3} => tel.phase_ab_M1 # None
           /\ p_z_ab.include_path \in {2, 3} => tel.phase_ab_M1_m # None

\* which step may change what
C5_Order ==
    /\ pc' # pc => <<pc, pc'>> \in Edges
    /\ (pc = "Entered" /\ pc' = "Done") => ~p_z_ab.include_zab
    /\ (pc = "Entered" /\ pc' # "Done") => p_z_ab.include_zab
    /\ (p_z_ab'.zcube_spup # p_z_ab.zcube_spup \/ p_z_ab'.zcube_mpup # p_z_ab.zcube_mpup) =>
           pc = "Entered"
    /\ (p_z_ab'.coeff_series # p_z_ab.coeff_series \/ p_z_ab'.time_series # p_z_ab.time_series) =>
           pc = "GeometryResolved"
    /\ (p_z_ab'.step # p_z_ab.step \/ p_z_ab'.dec # p_z_ab.dec) => pc = "SeriesLoaded"
    /\ tel' # tel => pc = "DataLoaded"
    /\ (stdout' # stdout /\ pc' # "Entered") =>
           /\ stdout = <<>>
           /\ pc \in {"Entered", "ScreensSynthesized"}
           /\ pc' \in {"Done", "Reported", "Failed"}
    /\ pc = "Reported" => (p_z_ab' = p_z_ab /\ tel' = tel)

\* C5: every call of init_z_aber runs Disabled -> Done or Enabled ->
\* GeometryResolved -> DataLoaded -> ScreensSynthesized -> Reported in this
\* order: a disabled call only prints the disabled report; an enabled call
\* writes the cubes before it loads the series, step and dec before any
\* screen, and prints its report once, last.
C5_StateMachine == []C5_Stages /\ [][C5_Order]_vars

\* a first enabled call has run through all the states and reported
C5_Witness ==
    /\ pc = "Reported" /\ ncalls = 1 /\ p_z_ab.include_path = 3
    /\ tel.phase_ab_M1 # None /\ tel.phase_ab_M1_m # None /\ Len(stdout) = 9

\* ------------------------------------------------------------------------
\* C6
\* ------------------------------------------------------------------------
PupGeData ==
    /\ err.exc = "ArithmeticError"
    /\ err.msg = "The telescope diameter (pup_diam) mustbe smaller than the data diameter (diam_data)"

\* C6: in an enabled call with an explicit positive pup_diam, pup_diam >=
\* diam_data makes the call fail with GeometryError with no cube, series,
\* step, decimation or screen set, and pup_diam < diam_data never makes this
\* comparison fail; with pup_diam = -2 the call never fails with
\* GeometryError.
C6_DiameterCheck ==
    (p_z_ab.include_zab /\ pc \notin {"Idle", "Entered", "Unit"}) =>
        /\ (old.p_z_ab.pup_diam > 0 /\ old.p_z_ab.pup_diam >= p_z_ab.diam_data) =>
               /\ pc = "Failed" /\ err.at = "ResolveGeometry"
               /\ PupGeData /\ SpecError(err) = "GeometryError"
               /\ p_z_ab = old.p_z_ab /\ tel = old.tel
               /\ ncalls = 1 => (\A f \in Derived : p_z_ab[f] = None) /\ tel = NewTel
        /\ (old.p_z_ab.pup_diam > 0 /\ old.p_z_ab.pup_diam < p_z_ab.diam_data) =>
               ~(pc = "Failed" /\ PupGeData)
        /\ old.p_z_ab.pup_diam = -2 =>
               ~(pc = "Failed" /\ SpecError(err) = "GeometryError")

\* an explicit diameter equal to the data diameter was rejected
C6_Witness ==
    /\ pc = "Failed" /\ PupGeData
    /\ old.p_z_ab.pup_diam > 0 /\ old.p_z_ab.pup_diam = p_z_ab.diam_data

\* ------------------------------------------------------------------------
\* C7
\* ------------------------------------------------------------------------
\* the outcome the claim prescribes for validate_and_step(time, it, tol)
StepVerdict(time, it, tol) ==
    LET n == Len(time)
        gaps == { FlSub(time[i + 1], time[i]) : i \in 1 .. n - 1 }
        uniform == \A a \in gaps, b \in gaps : ~FlGT(FlSub(a, b), tol)
        ratio == FlDiv(Mean(Diff(time)), it)
    IN  IF ~uniform THEN "NonUniformSamplingError"
        ELSE IF FlLT(ratio, FlInt(1)) THEN "SubIterationStepError"
        ELSE IF FlGT(FlAbs(FlSub(ratio, FlInt(FlRintInt(ratio)))), tol)
             THEN "NonIntegerDecimationError"
        ELSE "step"

\* stamps 0, 0.1, 0.2, 0.3 with iteration time 0.01
Example7 == << <<FlZero, FlDec(1, 10), FlDec(2, 10), FlDec(3, 10)>>, FlDec(1, 100), DefaultTol >>

\* C7: on a series of at least two stamps, calc_step returns the mean gap
\* exactly when the gaps agree within tol, step / it_time >= 1 and step /
\* it_time is within tol of its rounded value, and otherwise fails with the
\* first violated check; whenever init_z_aber has written step and dec,
\* step >= ittime, step / ittime is within tol of dec, and dec =
\* round(step / ittime) >= 1; stamps 0, 0.1, 0.2, 0.3 with it_time 0.01
\* give 10.  Differences, mean and quotient are the float64 ones.
C7_StepContract ==
    /\ (call.fn = "calc_step" /\ Len(call.args[1]) >= 2) =>
           LET verdict == StepVerdict(call.args[1], call.args[2], call.args[3])
           IN  /\ call.ret.ok <=> verdict = "step"
               /\ call.ret.ok => call.ret.val = Mean(Diff(call.args[1]))
               /\ ~call.ret.ok => SpecError(call.ret) = verdict
    /\ (call.fn = "calc_step" /\ call.args = Example7) =>
           /\ call.ret.ok
           /\ FlRintInt(FlDiv(call.ret.val, call.args[2])) = 10
    /\ (pc \in {"DataLoaded", "ScreensSynthesized", "Reported"}) =>
           LET step == Get(p_z_ab.step)
               dec == Get(p_z_ab.dec)
               ratio == FlDiv(step, p_loop.ittime)
           IN  /\ ~FlLT(step, p_loop.ittime)
               /\ ~FlGT(FlAbs(FlSub(ratio, FlInt(dec))), InitTol)
               /\ dec = FlRintInt(ratio)
               /\ dec >= 1

\* calc_step accepted stamps 0, 0.2, 0.4 whose step is twice the iteration
\* time 0.1
C7_Witness ==
    /\ call.fn = "calc_step" /\ call.ret.ok
    /\ call.args[1] = <<FlZero, FlDec(2, 10), FlDec(4, 10)>>
    /\ call.args[2] = FlDec(1, 10) /\ call.args[3] = InitTol
    /\ call.ret.val = FlDec(2, 10)

\* ------------------------------------------------------------------------
\* C8
\* ------------------------------------------------------------------------
\* C8: calc_trunc(spupil_size, tel_diam, diam) is even and equals floor(x)
\* when floor(x) is even and floor(x) + 1 when it is odd, for
\* x = diam * spupil_size / tel_diam; (100, 8, 4) gives 50.
C8_TruncEven ==
    call.fn = "calc_trunc" =>
        LET fl == (call.args[3] * call.args[1]) \div call.args[2]
        IN  /\ call.ret.val % 2 = 0
            /\ call.ret.val = IF fl % 2 = 0 THEN fl ELSE fl + 1

\* ------------------------------------------------------------------------
\* C9
\* ------------------------------------------------------------------------
\* C9 as stated: calc_zcube with n_zpol > 22 fails with UnsupportedOrderError
\* whatever grid_p is.
C9_OrderErrorAlways ==
    (call.fn = "calc_zcube" /\ call.args[1] > 22) =>
        (~call.ret.ok /\ SpecError(call.ret) = "UnsupportedOrderError")

ValidGrid(g) == g.type = "int" /\ g.val > 0

\* C9 (amended): calc_zcube with n_zpol > 22 always fails: with
\* UnsupportedOrderError when grid_p is a positive integer, and with
\* InvalidGridError when it is not, the grid being checked first.
C9_GridCheckedFirst ==
    (call.fn = "calc_zcube" /\ call.args[1] > 22) =>
        /\ ~call.ret.ok
        /\ ValidGrid(call.args[2]) => SpecError(call.ret) = "UnsupportedOrderError"
        /\ ~ValidGrid(call.args[2]) => SpecError(call.ret) = "InvalidGridError"

\* 23 modes were asked for on a grid of 0 points
C9_Witness ==
    /\ call.fn = "calc_zcube" /\ call.args[1] = 23 /\ call.args[2] = PyInt(0)
    /\ ~call.ret.ok /\ call.ret.exc = "TypeError"

\* ------------------------------------------------------------------------
\* C10
\* ------------------------------------------------------------------------
\* sum over the modes in ks of coeff[k] * cube[k] at the pixel (r, c)
RECURSIVE ModeSum(_, _, _, _, _)
ModeSum(cube, coeff, r, c, ks) ==
    IF ks = {} THEN RatInt(0)
    ELSE LET k == CHOOSE x \in ks : TRUE
         IN  RatAdd(RatScale(coeff[k + 1], cube.pix[<<k, r, c>>]),
                    ModeSum(cube, coeff, r, c, ks \ {k}))

UnitVector(coeff) ==
    /\ Len(coeff) >= 1 /\ coeff[1] = 1
    /\ \A k \in 2 .. Len(coeff) : coeff[k] = 0

\* C10 as stated, on a cube with at least one mode and a non-empty spatial
\* extent and with n_zpol the number of modes: calc_phase_screen fails with
\* DimensionMismatchError when len(coeff) differs from the number of modes
\* of the cube, and otherwise returns the screen of the cube's spatial shape
\* whose every pixel is the sum of coeff[k] * cube[k]; coeff = [1, 0, ...]
\* returns cube[0].
C10_PhaseScreenSum ==
    ( /\ call.fn = "calc_phase_screen"
      /\ call.args[1].nz >= 1 /\ call.args[1].side >= 1
      /\ call.args[3] = call.args[1].nz ) =>
        LET cube == call.args[1]
            coeff == call.args[2]
        IN  IF Len(coeff) # cube.nz
            THEN ~call.ret.ok /\ SpecError(call.ret) = "DimensionMismatchError"
            ELSE /\ call.ret.ok
                 /\ call.ret.val.side = cube.side
                 /\ \A r \in 0 .. cube.side - 1, c \in 0 .. cube.side - 1 :
                        /\ call.ret.val.pix[<<r, c>>] =
                               ModeSum(cube, coeff, r, c, 0 .. cube.nz - 1)
                        /\ UnitVector(coeff) =>
                               call.ret.val.pix[<<r, c>>] = cube.pix[<<0, r, c>>]

\* C10 (amended): on a cube with at least one mode and a non-empty spatial
\* extent, calc_phase_screen(cube, coeff, n_zpol) fails with
\* DimensionMismatchError when len(coeff) differs from the number of modes
\* or from n_zpol, and otherwise returns the screen of the cube's spatial
\* shape whose every pixel is the sum of coeff[k] * cube[k] rounded to
\* single precision; coeff = [1, 0, ...] returns cube[0] rounded to single
\* precision.
C10_PhaseScreenFloat32 ==
    (call.fn = "calc_phase_screen" /\ call.args[1].nz >= 1 /\ call.args[1].side >= 1) =>
        LET cube == call.args[1]
            coeff == call.args[2]
            n_zpol == call.args[3]
        IN  IF Len(coeff) # cube.nz \/ n_zpol # Len(coeff)
            THEN ~call.ret.ok /\ SpecError(call.ret) = "DimensionMismatchError"
            ELSE /\ call.ret.ok
                 /\ call.ret.val.side = cube.side
                 /\ \A r \in 0 .. cube.side - 1, c \in 0 .. cube.side - 1 :
                        /\ call.ret.val.pix[<<r, c>>] =
                               Float32(ModeSum(cube, coeff, r, c, 0 .. cube.nz - 1))
                        /\ UnitVector(coeff) =>
                               call.ret.val.pix[<<r, c>>] = Float32(cube.pix[<<0, r, c>>])

\* a two-mode cube was combined with the coefficients [1, 0] and the result
\* differs from cube[0] by the rounding to single precision
C10_Witness ==
    /\ call.fn = "calc_phase_screen" /\ call.ret.ok
    /\ call.args[2] = <<1, 0>> /\ call.args[1].side = 2
    /\ call.args[1].pix[<<0, 0, 0>>] = RatInt(16777217)
    /\ call.ret.val.pix[<<0, 0>>] = RatInt(16777216)

\* ------------------------------------------------------------------------
\* C11: init_z_aber is idempotent on the configuration and the telescope
\* model.  A call made on what an earlier call left behind, with the same
\* data file, ends as that call ended (success, or the same error raised
\* in the same block) and leaves p_z_ab and tel as it found them; an
\* enabled call that is past the geometry block never leaves pup_diam at
\* the sentinel -1, and the later call resolves to the same two cubes.
\* ------------------------------------------------------------------------
Ended == pc \in {"Done", "Reported", "Failed"}

PastGeometry ==
    \/ pc \in {"GeometryResolved", "SeriesLoaded", "DataLoaded", "ScreensSynthesized", "Reported"}
    \/ pc = "Failed" /\ err.at # "ResolveGeometry"

C11_Idempotent ==
    /\ (ncalls >= 2 /\ Ended) =>
           /\ pc = old.pc
           /\ err = old.err
           /\ p_z_ab = old.p_z_ab
           /\ tel = old.tel
    /\ (p_z_ab.include_zab /\ PastGeometry) => p_z_ab.pup_diam # -1
    /\ (ncalls >= 2 /\ p_z_ab.include_zab /\ PastGeometry) =>
           /\ p_z_ab.pup_diam = old.p_z_ab.pup_diam
           /\ p_z_ab.zcube_spup = old.p_z_ab.zcube_spup
           /\ p_z_ab.zcube_mpup = old.p_z_ab.zcube_mpup

\* a second call has succeeded on the diameter a first call wrote in place
\* of the sentinel (only a sentinel run has a telescope diameter above 1)
C11_Witness ==
    /\ ncalls = 2 /\ pc = "Reported" /\ old.pc = "Reported"
    /\ p_tel.diam > 1 /\ p_z_ab.pup_diam = p_tel.diam
    /\ p_z_ab.zcube_spup # None /\ Get(p_z_ab.zcube_spup).side > 0
    /\ tel.phase_ab_M1 # None /\ tel = old.tel /\ p_z_ab = old.p_z_ab

====
